---- MODULE Spec2Model ----
(***************************************************************************)
(* Model of the pixel-packing codec of bmd-signal-gen                      *)
(* (src/cpp/pixel_packing.cpp, src/cpp/draw_image.cpp).                    *)
(*                                                                         *)
(* A state is one call of the codec: the caller's frame (srcData, width,   *)
(* height), the build's byte order (littleEndian), and, once a function    *)
(* has been called, its arguments (op, pixelFormat, rowBytes, isBGRA,      *)
(* fillColor), the destination buffer before the call (destBefore) and     *)
(* after it (destData), the destination offsets written beyond the buffer  *)
(* (oobWrites) and the return value (ret).                                 *)
(*                                                                         *)
(* calls holds the calls that are followed store by store: for each, its   *)
(* arguments, its destination before the call and so far, and the rows     *)
(* whose stores have been done, in the order they were done.               *)
(*                                                                         *)
(* gen is a DeckLinkSignalGen object (src/cpp/decklink_wrapper.cpp), hw    *)
(* what the DeckLink output has been asked to do, and result the last      *)
(* method called on gen and what it returned.                              *)
(***************************************************************************)
EXTENDS Integers, Sequences, FiniteSets, TLC

VARIABLES width, height, srcData, littleEndian,
          op, pixelFormat, rowBytes, isBGRA, fillColor,
          destBefore, destData, oobWrites, ret,
          calls,
          gen, hw, result

vars == <<width, height, srcData, littleEndian,
          op, pixelFormat, rowBytes, isBGRA, fillColor,
          destBefore, destData, oobWrites, ret,
          calls,
          gen, hw, result>>

\* The codec's variables and those of the DeckLinkSignalGen object.
codecVars == <<width, height, srcData, littleEndian,
               op, pixelFormat, rowBytes, isBGRA, fillColor,
               destBefore, destData, oobWrites, ret, calls>>

deviceVars == <<gen, hw, result>>

(***************************************************************************)
(* Bounds of the model.                                                    *)
(***************************************************************************)
\* Frame widths 1..MaxWidth: 9 covers a full 12-bit group of 8 pixels and a
\* trailing partial group.
MaxWidth == 9
\* Frame heights 1..MaxHeight.
MaxHeight == 2

(***************************************************************************)
(* Inputs.  Samples are 16-bit containers (uint16_t); the list holds the   *)
(* boundary values of every bit depth and values beyond them.              *)
(***************************************************************************)
Samples == <<0, 1, 15, 16, 128, 255, 256, 300, 512, 1023,
             1024, 2048, 4095, 4096, 5000, 65535>>

NumSamples == Len(Samples)

\* The offsets between the components of one pixel in the sample list.
Skews == {0, 1, 5}

\* The interleaved sample buffer of an n-pixel frame: pixel i holds, in
\* component k, sample number s + i + k*t of the list (cyclically), so that
\* every sample occurs in every component and every pair of samples occurs
\* in two components of one pixel for some (s, t).
SrcPattern(s, t, n) ==
    [j \in 0..(3 * n - 1) |->
        Samples[((s + (j \div 3) + (j % 3) * t) % NumSamples) + 1]]

\* What the destination buffer holds before the call.
Fills == {170}

\* Bytes of row padding the caller's row-stride adds to the minimum.
RowPads == {0, 6}

\* Colour triplets handed to the solid-fill helpers.
FillTriplets == {<<4095, 2048, 0>>, <<5000, 1024, 65535>>}

(***************************************************************************)
(* Pixel format identifiers (BMDPixelFormat).                              *)
(***************************************************************************)
PixelFormats == {"bmdFormat8BitYUV", "bmdFormat10BitYUV", "bmdFormat8BitARGB",
                 "bmdFormat8BitBGRA", "bmdFormat10BitRGB", "bmdFormat12BitRGB",
                 "bmdFormat12BitRGBLE", "bmdFormat10BitRGBXLE",
                 "bmdFormat10BitRGBX"}

(***************************************************************************)
(* Integer arithmetic of the C++ code.                                     *)
(***************************************************************************)
RECURSIVE AndBits(_, _)
\* a & b on non-negative integers, bit by bit.
AndBits(a, b) ==
    IF a = 0 \/ b = 0 THEN 0
    ELSE (a % 2) * (b % 2) + 2 * AndBits(a \div 2, b \div 2)

\* a & b for 0 <= a, b < 16, tabulated.
NibbleAnd == [a \in 0..15 |-> [b \in 0..15 |-> AndBits(a, b)]]

RECURSIVE BitAnd(_, _)
\* a & b on non-negative integers, four bits at a time.
BitAnd(a, b) ==
    IF a = 0 \/ b = 0 THEN 0
    ELSE NibbleAnd[a % 16][b % 16] + 16 * BitAnd(a \div 16, b \div 16)

\* a | b on non-negative integers.
BitOr(a, b) ==
    IF a = 0 THEN b ELSE IF b = 0 THEN a ELSE a + b - BitAnd(a, b)

\* a << n and a >> n on values that stay below 2^31.
ShlInt(a, n) == a * (2 ^ n)
Shr(a, n) == a \div (2 ^ n)

\* Conversion to uint8_t.
U8(a) == a % 256

\* std::min
Min(a, b) == IF a < b THEN a ELSE b

\* The function f with all its values computed: TLC otherwise keeps
\* [x \in S |-> e] unevaluated and computes e again at every f[x].
Evaluated(f) == f @@ <<>>

(***************************************************************************)
(* 32-bit words (uint32_t, and int before its conversion to uint32_t) are  *)
(* held as their four bytes, w[0] the least significant: the values reach  *)
(* 0xFF000000.                                                             *)
(***************************************************************************)
\* a << n as a 32-bit word, for 0 <= a < 65536 (a promoted uint8_t or
\* uint16_t, or a small constant).
Shl(a, n) ==
    Evaluated([j \in 0..3 |->
        IF j < n \div 8 THEN 0
        ELSE ((a * (2 ^ (n % 8))) \div (256 ^ (j - n \div 8))) % 256])

\* v | w on 32-bit words.
OrW(v, w) == Evaluated([j \in 0..3 |-> BitOr(v[j], w[j])])

\* The len-bit field of a word whose lowest bit is lo (lo >= 16, or
\* lo + len <= 30).
Field(w, lo, len) ==
    LET hi16 == 256 * w[3] + w[2]
        lo16 == 256 * w[1] + w[0]
    IN  IF lo >= 16
        THEN (hi16 \div (2 ^ (lo - 16))) % (2 ^ len)
        ELSE (((hi16 % 16384) * 65536 + lo16) \div (2 ^ lo)) % (2 ^ len)

(***************************************************************************)
(* The destination buffer: its bytes, and the offsets written outside it.  *)
(***************************************************************************)
Mem(bytes, oob) == [bytes |-> bytes, oob |-> oob]

\* Writes a partial function of (offset within the row -> byte) at base.
StoreRow(mem, base, rowFn) ==
    Mem(Evaluated([i \in DOMAIN mem.bytes |->
            IF (i - base) \in DOMAIN rowFn THEN rowFn[i - base]
            ELSE mem.bytes[i]]),
        mem.oob \cup {base + j : j \in {k \in DOMAIN rowFn :
                                          (base + k) \notin DOMAIN mem.bytes}})

\* Byte j (0..3, in memory order) of a 32-bit word stored natively:
\* pixels[destIndex] = w through a uint32_t*.
WordByte(le, w, j) == IF le THEN w[j] ELSE w[3 - j]

\* The 32-bit native word held by the four bytes at byte offset off.
WordAt(le, bytes, off) ==
    [j \in 0..3 |-> IF le THEN bytes[off + j] ELSE bytes[off + 3 - j]]

\* The same four bytes read as one big-endian 32-bit word.
BigEndianWordAt(bytes, off) == [j \in 0..3 |-> bytes[off + 3 - j]]

RECURSIVE StoreRows(_, _, _)
\* for (int y = ...; y < height; y++): row y writes rows[y].fn at rows[y].base.
StoreRows(mem, rows, y) ==
    IF y \notin DOMAIN rows THEN mem
    ELSE StoreRows(StoreRow(mem, rows[y].base, rows[y].fn), rows, y + 1)

(***************************************************************************)
(* The packers of pixel_packing.cpp.  Each takes the destination (mem),    *)
(* three channel buffers indexed from 0, the geometry and the row-stride,  *)
(* and returns the destination after the call.                             *)
(***************************************************************************)
\* The two bytes the loop body of pack_8bpc_yuv_image writes at destIndex
\* and destIndex + 1 for column x.
yuv8_pixel_bytes(srcY, srcU, srcV, srcIndex, x) ==
    LET y_val == U8(Min(srcY[srcIndex], 255))
        u == U8(Min(srcU[srcIndex], 255))
        v == U8(Min(srcV[srcIndex], 255))
    IN  IF x % 2 = 0 THEN <<v, y_val>> ELSE <<u, y_val>>

\* The stores of each iteration of pack_8bpc_yuv_image's outer loop: row y
\* writes fn at byte offset base.
pack_8bpc_yuv_rows(srcY, srcU, srcV, w, h, rb) ==
    LET \* x = 0, 2, 4, ... < w writes offsets 2x and 2x + 1 of the row
        cols == {x \in 0..(w - 1) : x % 2 = 0}
        rowFn(y) ==
            Evaluated([j \in UNION {{2 * x, 2 * x + 1} : x \in cols} |->
                yuv8_pixel_bytes(srcY, srcU, srcV,
                                 y * w + (j \div 2), j \div 2)[(j % 2) + 1]])
    IN  Evaluated([y \in 0..(h - 1) |-> [base |-> y * rb, fn |-> rowFn(y)]])

pack_8bpc_yuv_image(mem, srcY, srcU, srcV, w, h, rb) ==
    StoreRows(mem, pack_8bpc_yuv_rows(srcY, srcU, srcV, w, h, rb), 0)

\* The 8-bit word with red and blue exchanged in the BGRA arm.
rgb8_color_swapped(srcR, srcG, srcB, srcIndex, bgra) ==
    LET r == U8(srcR[srcIndex])
        g == U8(srcG[srcIndex])
        b == U8(srcB[srcIndex])
    IN  OrW(OrW(OrW(Shl(255, 24), Shl(b, 16)), Shl(g, 8)), Shl(r, 0))

\* The word pack_8bpc_rgb_image stores for one pixel.
rgb8_color(srcR, srcG, srcB, srcIndex, bgra) ==
    LET r == U8(srcR[srcIndex])
        g == U8(srcG[srcIndex])
        b == U8(srcB[srcIndex])
    IN  IF bgra
        THEN OrW(OrW(OrW(Shl(255, 24), Shl(r, 16)), Shl(g, 8)), Shl(b, 0))
        ELSE OrW(OrW(OrW(Shl(255, 24), Shl(b, 16)), Shl(g, 8)), Shl(r, 0))

\* A row of w 32-bit words, word x being Color(y * w + x), stored through
\* a uint32_t* at word index y * (rb / 4) + x.
WordRow(le, w, y, Color(_)) ==
    LET words == Evaluated([x \in 0..(w - 1) |-> Color(y * w + x)])
    IN  Evaluated([j \in 0..(4 * w - 1) |-> WordByte(le, words[j \div 4], j % 4)])

WordRows(le, w, h, rb, Color(_)) ==
    Evaluated([y \in 0..(h - 1) |->
        [base |-> 4 * (y * (rb \div 4)), fn |-> WordRow(le, w, y, Color)]])

pack_8bpc_rgb_rows(le, srcR, srcG, srcB, w, h, rb, bgra) ==
    LET Color(srcIndex) == rgb8_color(srcR, srcG, srcB, srcIndex, bgra)
    IN  WordRows(le, w, h, rb, Color)

pack_8bpc_rgb_image(mem, le, srcR, srcG, srcB, w, h, rb, bgra) ==
    StoreRows(mem, pack_8bpc_rgb_rows(le, srcR, srcG, srcB, w, h, rb, bgra), 0)

\* The 10-bit RGB word without the std::min of the three samples.
rgb10_pixel_unclamped(srcR, srcG, srcB, srcIndex) ==
    LET r == srcR[srcIndex]
        g == srcG[srcIndex]
        b == srcB[srcIndex]
    IN  OrW(OrW(OrW(OrW(OrW(Shl(BitAnd(b, 15), 24),
                            Shl(BitAnd(b, 768), 8)),
                        Shl(BitAnd(g, 63), 18)),
                    Shl(BitAnd(g, 960), 2)),
                Shl(BitAnd(r, 15), 12)),
            Shl(Shr(BitAnd(r, 1008), 4), 0))

\* The word pack_10bpc_rgb_image stores for one pixel.
rgb10_pixel(srcR, srcG, srcB, srcIndex) ==
    LET r == Min(srcR[srcIndex], 1023)
        g == Min(srcG[srcIndex], 1023)
        b == Min(srcB[srcIndex], 1023)
    IN  OrW(OrW(OrW(OrW(OrW(Shl(BitAnd(b, 15), 24),
                            Shl(BitAnd(b, 768), 8)),
                        Shl(BitAnd(g, 63), 18)),
                    Shl(BitAnd(g, 960), 2)),
                Shl(BitAnd(r, 15), 12)),
            Shl(Shr(BitAnd(r, 1008), 4), 0))

pack_10bpc_rgb_rows(le, srcR, srcG, srcB, w, h, rb) ==
    LET Color(srcIndex) == rgb10_pixel(srcR, srcG, srcB, srcIndex)
    IN  WordRows(le, w, h, rb, Color)

pack_10bpc_rgb_image(mem, le, srcR, srcG, srcB, w, h, rb) ==
    StoreRows(mem, pack_10bpc_rgb_rows(le, srcR, srcG, srcB, w, h, rb), 0)

\* The 10-bit YUV word with luma in the low field and U in the middle one.
yuv10_color_luma_first(srcY, srcU, srcV, srcIndex) ==
    LET y_val == Min(srcY[srcIndex], 1023)
        u == Min(srcU[srcIndex], 1023)
        v == Min(srcV[srcIndex], 1023)
    IN  OrW(OrW(Shl(BitAnd(y_val, 1023), 0), Shl(BitAnd(u, 1023), 10)),
            Shl(BitAnd(v, 1023), 20))

\* The word pack_10bpc_yuv_image stores for one pixel.
yuv10_color(srcY, srcU, srcV, srcIndex) ==
    LET y_val == Min(srcY[srcIndex], 1023)
        u == Min(srcU[srcIndex], 1023)
        v == Min(srcV[srcIndex], 1023)
    IN  OrW(OrW(Shl(BitAnd(u, 1023), 0), Shl(BitAnd(y_val, 1023), 10)),
            Shl(BitAnd(v, 1023), 20))

pack_10bpc_yuv_rows(le, srcY, srcU, srcV, w, h, rb) ==
    LET Color(srcIndex) == yuv10_color(srcY, srcU, srcV, srcIndex)
    IN  WordRows(le, w, h, rb, Color)

pack_10bpc_yuv_image(mem, le, srcY, srcU, srcV, w, h, rb) ==
    StoreRows(mem, pack_10bpc_yuv_rows(le, srcY, srcU, srcV, w, h, rb), 0)

swizzle_two_12(channelA, channelB) ==
    LET b_high_4bits == U8(Shr(BitAnd(channelB, 240), 4))
        a_low_4bits == U8(BitAnd(channelA, 15))
    IN  U8(BitOr(ShlInt(a_low_4bits, 4), b_high_4bits))

high_8_of_12(channel) == U8(BitAnd(Shr(channel, 4), 255))

low_8_of_12(channel) == U8(BitAnd(channel, 255))

\* The 36 bytes groupPtr[0..35] of one group of 8 pixels; r, g, b are the
\* arrays r_channels, g_channels, b_channels, indexed 0..7.
pack_8_12bpc_pixels_into_36_bytes(r, g, b) ==
    LET bytes == <<
            \* word 0: groupPtr[0..3]
            low_8_of_12(b[0]), high_8_of_12(g[0]),
            swizzle_two_12(g[0], r[0]), low_8_of_12(r[0]),
            \* word 1: groupPtr[4..7]
            swizzle_two_12(b[1], g[1]), low_8_of_12(g[1]),
            high_8_of_12(r[1]), swizzle_two_12(r[1], b[0]),
            \* word 2: groupPtr[8..11]
            high_8_of_12(g[2]), swizzle_two_12(g[2], r[2]),
            low_8_of_12(r[2]), high_8_of_12(b[1]),
            \* word 3: groupPtr[12..15]
            low_8_of_12(g[3]), high_8_of_12(r[3]),
            swizzle_two_12(r[3], b[2]), low_8_of_12(b[2]),
            \* word 4: groupPtr[16..19]
            swizzle_two_12(g[4], r[4]), low_8_of_12(r[4]),
            high_8_of_12(b[3]), swizzle_two_12(b[3], g[3]),
            \* word 5: groupPtr[20..23]
            high_8_of_12(r[5]), swizzle_two_12(r[5], b[4]),
            low_8_of_12(b[4]), high_8_of_12(g[4]),
            \* word 6: groupPtr[24..27]
            low_8_of_12(r[6]), high_8_of_12(b[5]),
            swizzle_two_12(b[5], g[5]), low_8_of_12(g[5]),
            \* word 7: groupPtr[28..31]
            swizzle_two_12(r[7], b[6]), low_8_of_12(b[6]),
            high_8_of_12(g[6]), swizzle_two_12(g[6], r[6]),
            \* word 8: groupPtr[32..35]
            high_8_of_12(b[7]), swizzle_two_12(b[7], g[7]),
            low_8_of_12(g[7]), high_8_of_12(r[7]) >>
    IN  Evaluated([k \in 0..35 |-> bytes[k + 1]])

\* The group's channels with the last pixel of the row repeated beyond the
\* end of the row.
group_channels_repeating(src, w, y, x) ==
    Evaluated([i \in 0..7 |->
        Min(src[y * w + (IF x + i < w THEN x + i ELSE w - 1)], 4095)])

\* r_channels (or g_, b_channels) of the group starting at column x of
\* row y: the clamped samples, zero beyond the end of the row.
group_channels(src, w, y, x) ==
    Evaluated([i \in 0..7 |->
        IF x + i < w THEN Min(src[y * w + (x + i)], 4095) ELSE 0])

\* The stores of each iteration of pack_12bpc_rgb_image's outer loop.
pack_12bpc_rgb_rows(srcR, srcG, srcB, w, h, rb) ==
    LET \* x = 0, 8, 16, ... < w: group x / 8 of the row
        nGroups == (w + 7) \div 8
        group(y, gi) ==
            pack_8_12bpc_pixels_into_36_bytes(
                group_channels(srcR, w, y, 8 * gi),
                group_channels(srcG, w, y, 8 * gi),
                group_channels(srcB, w, y, 8 * gi))
        rowFn(y) ==
            LET groups == Evaluated([gi \in 0..(nGroups - 1) |-> group(y, gi)])
            IN  Evaluated([j \in 0..(36 * nGroups - 1) |->
                              groups[j \div 36][j % 36]])
    IN  Evaluated([y \in 0..(h - 1) |-> [base |-> y * rb, fn |-> rowFn(y)]])

pack_12bpc_rgb_image(mem, srcR, srcG, srcB, w, h, rb) ==
    StoreRows(mem, pack_12bpc_rgb_rows(srcR, srcG, srcB, w, h, rb), 0)

\* The buffer read as three planes, one after the other.
Channel_planar(src, k, n) == Evaluated([i \in 0..(n - 1) |-> src[k * n + i]])

\* Component k (0, 1, 2) of every triplet of the interleaved buffer:
\* r_channel, g_channel, b_channel of pack_pixel_format.
Channel(src, k, n) == Evaluated([i \in 0..(n - 1) |-> src[i * 3 + k]])

\* A silent fallback: the frame is cleared and the call reports success.
unsupported_pixel_format_silent(mem) ==
    [mem |-> Mem(Evaluated([i \in DOMAIN mem.bytes |-> 0]), mem.oob), ret |-> 0]

\* The default arm of pack_pixel_format's switch.
unsupported_pixel_format(mem) == [mem |-> mem, ret |-> -8]

\* pack_pixel_format: the destination after the call and the return value.
pack_pixel_format(mem, le, fmt, src, w, h, rb) ==
    LET r_channel == Channel(src, 0, w * h)
        g_channel == Channel(src, 1, w * h)
        b_channel == Channel(src, 2, w * h)
    IN  CASE fmt = "bmdFormat8BitBGRA" ->
                [mem |-> pack_8bpc_rgb_image(mem, le, r_channel, g_channel,
                                             b_channel, w, h, rb, TRUE),
                 ret |-> 0]
          [] fmt = "bmdFormat8BitARGB" ->
                [mem |-> pack_8bpc_rgb_image(mem, le, r_channel, g_channel,
                                             b_channel, w, h, rb, FALSE),
                 ret |-> 0]
          [] fmt = "bmdFormat10BitRGB" ->
                [mem |-> pack_10bpc_rgb_image(mem, le, r_channel, g_channel,
                                              b_channel, w, h, rb),
                 ret |-> 0]
          [] fmt = "bmdFormat8BitYUV" ->
                [mem |-> pack_10bpc_yuv_image(mem, le, r_channel, g_channel,
                                              b_channel, w, h, rb),
                 ret |-> 0]
          [] fmt = "bmdFormat12BitRGB" ->
                [mem |-> pack_12bpc_rgb_image(mem, r_channel, g_channel,
                                              b_channel, w, h, rb),
                 ret |-> 0]
          [] OTHER -> unsupported_pixel_format(mem)

\* The stores of the packer pack_pixel_format's switch calls, row by row;
\* none for a format the switch has no case for.
pack_pixel_format_rows(le, fmt, src, w, h, rb) ==
    LET r_channel == Channel(src, 0, w * h)
        g_channel == Channel(src, 1, w * h)
        b_channel == Channel(src, 2, w * h)
    IN  CASE fmt = "bmdFormat8BitBGRA" ->
                pack_8bpc_rgb_rows(le, r_channel, g_channel, b_channel,
                                   w, h, rb, TRUE)
          [] fmt = "bmdFormat8BitARGB" ->
                pack_8bpc_rgb_rows(le, r_channel, g_channel, b_channel,
                                   w, h, rb, FALSE)
          [] fmt = "bmdFormat10BitRGB" ->
                pack_10bpc_rgb_rows(le, r_channel, g_channel, b_channel,
                                    w, h, rb)
          [] fmt = "bmdFormat8BitYUV" ->
                pack_10bpc_yuv_rows(le, r_channel, g_channel, b_channel,
                                    w, h, rb)
          [] fmt = "bmdFormat12BitRGB" ->
                pack_12bpc_rgb_rows(r_channel, g_channel, b_channel, w, h, rb)
          [] OTHER -> <<>>

(***************************************************************************)
(* The solid-fill helpers of draw_image.cpp.  They clamp the triplet,      *)
(* build constant channel buffers and call pack_10bit_rgb_image,           *)
(* pack_10bit_yuv_image and pack_12bit_rgb_image, which the sources do not *)
(* define: the packers of pixel_packing.cpp stand for them (section 4.5 of *)
(* the specification: the helper delegates to the packers).                *)
(***************************************************************************)
pack_10bit_rgb_image(mem, le, srcR, srcG, srcB, w, h, rb) ==
    pack_10bpc_rgb_image(mem, le, srcR, srcG, srcB, w, h, rb)

pack_10bit_yuv_image(mem, le, srcY, srcU, srcV, w, h, rb) ==
    pack_10bpc_yuv_image(mem, le, srcY, srcU, srcV, w, h, rb)

pack_12bit_rgb_image(mem, srcR, srcG, srcB, w, h, rb) ==
    pack_12bpc_rgb_image(mem, srcR, srcG, srcB, w, h, rb)

\* std::vector<uint16_t>(n, v)
Constant(n, v) == Evaluated([i \in 0..(n - 1) |-> v])

fill_10bit_rgb_frame(mem, le, w, h, rb, r0, g0, b0) ==
    LET r == Min(r0, 1023)
        g == Min(g0, 1023)
        b == Min(b0, 1023)
    IN  pack_10bit_rgb_image(mem, le, Constant(w * h, r), Constant(w * h, g),
                             Constant(w * h, b), w, h, rb)

fill_10bit_yuv_frame(mem, le, w, h, rb, y0, u0, v0) ==
    LET y == Min(y0, 1023)
        u == Min(u0, 1023)
        v == Min(v0, 1023)
    IN  pack_10bit_yuv_image(mem, le, Constant(w * h, y), Constant(w * h, u),
                             Constant(w * h, v), w, h, rb)

fill_12bit_rgb_frame(mem, w, h, rb, r0, g0, b0) ==
    LET r == Min(r0, 4095)
        g == Min(g0, 4095)
        b == Min(b0, 4095)
    IN  pack_12bit_rgb_image(mem, Constant(w * h, r), Constant(w * h, g),
                             Constant(w * h, b), w, h, rb)

(***************************************************************************)
(* The caller: the row-stride it passes and the buffer it owns.            *)
(***************************************************************************)
\* The row-strides a caller passes for a frame of width w: the minimum of
\* the layout (2 bytes per pixel for 8-bit YUV, 4 for the word formats) plus
\* padding; for the 12-bit formats the documented (Width * 36) / 8 and the
\* stride of whole 36-byte groups.
RowBytesChoices(fmt, w) ==
    CASE fmt = "bmdFormat8BitYUV" -> {2 * w + pad : pad \in RowPads}
      [] fmt \in {"bmdFormat12BitRGB", "bmdFormat12BitRGBLE"} ->
            {(w * 36) \div 8, 36 * ((w + 7) \div 8)}
      [] OTHER -> {4 * w + pad : pad \in RowPads}

\* A destination buffer of rb * h bytes, every byte holding fill.
Buffer(rb, h, fill) == Mem(Evaluated([i \in 0..(rb * h - 1) |-> fill]), {})

\* The planar buffers a caller of the per-format packers holds.
srcR == Channel(srcData, 0, width * height)
srcG == Channel(srcData, 1, width * height)
srcB == Channel(srcData, 2, width * height)

(***************************************************************************)
(* State machine: Init draws the frame, each action is one call.           *)
(***************************************************************************)
\* The documented example frame: 2x1, pixel 0 = (255, 0, 0), pixel 1 =
\* (0, 255, 0), interleaved as the caller hands it over.
Example2x1 == Evaluated([j \in 0..5 |-> <<255, 0, 0, 0, 255, 0>>[j + 1]])

\* No DeckLinkSignalGen object has been constructed.
NoDevice == gen = <<>> /\ hw = <<>> /\ result = <<>>

NotCalled ==
    /\ op = "none"
    /\ pixelFormat = "none"
    /\ rowBytes = 0
    /\ isBGRA = FALSE
    /\ fillColor = <<0, 0, 0>>
    /\ destBefore = <<>>
    /\ destData = <<>>
    /\ oobWrites = {}
    /\ ret = 0
    /\ calls = <<>>

Init ==
    /\ width \in 1..MaxWidth
    /\ height \in 1..MaxHeight
    /\ \/ \E s \in 0..(NumSamples - 1), t \in Skews :
                srcData = SrcPattern(s, t, width * height)
       \/ width = 2 /\ height = 1 /\ srcData = Example2x1
    /\ littleEndian \in BOOLEAN
    /\ NotCalled
    /\ NoDevice

\* The state after a call: its arguments, the buffer before and after.
Called(name, fmt, rb, bgra, color, before, after, r) ==
    /\ op' = name
    /\ pixelFormat' = fmt
    /\ rowBytes' = rb
    /\ isBGRA' = bgra
    /\ fillColor' = color
    /\ destBefore' = before.bytes
    /\ destData' = after.bytes
    /\ oobWrites' = after.oob
    /\ ret' = r
    /\ UNCHANGED <<width, height, srcData, littleEndian, calls>>
    /\ UNCHANGED deviceVars

CallPack8bpcYuv ==
    /\ op = "none"
    /\ \E rb \in RowBytesChoices("bmdFormat8BitYUV", width), fill \in Fills :
        LET before == Buffer(rb, height, fill)
        IN  Called("pack_8bpc_yuv_image", "bmdFormat8BitYUV", rb, FALSE,
                   <<0, 0, 0>>, before,
                   pack_8bpc_yuv_image(before, srcR, srcG, srcB,
                                       width, height, rb), 0)

CallPack8bpcRgb ==
    /\ op = "none"
    /\ \E bgra \in BOOLEAN :
       \E rb \in RowBytesChoices("bmdFormat8BitBGRA", width), fill \in Fills :
        LET before == Buffer(rb, height, fill)
        IN  Called("pack_8bpc_rgb_image",
                   IF bgra THEN "bmdFormat8BitBGRA" ELSE "bmdFormat8BitARGB",
                   rb, bgra, <<0, 0, 0>>, before,
                   pack_8bpc_rgb_image(before, littleEndian, srcR, srcG, srcB,
                                       width, height, rb, bgra), 0)

CallPack10bpcRgb ==
    /\ op = "none"
    /\ \E rb \in RowBytesChoices("bmdFormat10BitRGB", width), fill \in Fills :
        LET before == Buffer(rb, height, fill)
        IN  Called("pack_10bpc_rgb_image", "bmdFormat10BitRGB", rb, FALSE,
                   <<0, 0, 0>>, before,
                   pack_10bpc_rgb_image(before, littleEndian, srcR, srcG, srcB,
                                        width, height, rb), 0)

CallPack10bpcYuv ==
    /\ op = "none"
    /\ \E rb \in RowBytesChoices("bmdFormat10BitYUV", width), fill \in Fills :
        LET before == Buffer(rb, height, fill)
        IN  Called("pack_10bpc_yuv_image", "bmdFormat10BitYUV", rb, FALSE,
                   <<0, 0, 0>>, before,
                   pack_10bpc_yuv_image(before, littleEndian, srcR, srcG, srcB,
                                        width, height, rb), 0)

CallPack12bpcRgb ==
    /\ op = "none"
    /\ \E rb \in RowBytesChoices("bmdFormat12BitRGB", width), fill \in Fills :
        LET before == Buffer(rb, height, fill)
        IN  Called("pack_12bpc_rgb_image", "bmdFormat12BitRGB", rb, FALSE,
                   <<0, 0, 0>>, before,
                   pack_12bpc_rgb_image(before, srcR, srcG, srcB,
                                        width, height, rb), 0)

CallPackPixelFormat ==
    /\ op = "none"
    /\ \E fmt \in PixelFormats :
       \E rb \in RowBytesChoices(fmt, width), fill \in Fills :
        LET before == Buffer(rb, height, fill)
            res == pack_pixel_format(before, littleEndian, fmt, srcData,
                                     width, height, rb)
        IN  Called("pack_pixel_format", fmt, rb, FALSE, <<0, 0, 0>>,
                   before, res.mem, res.ret)

CallFill10bitRgb ==
    /\ op = "none"
    /\ \E c \in FillTriplets :
       \E rb \in RowBytesChoices("bmdFormat10BitRGB", width), fill \in Fills :
        LET before == Buffer(rb, height, fill)
        IN  Called("fill_10bit_rgb_frame", "bmdFormat10BitRGB", rb, FALSE, c,
                   before,
                   fill_10bit_rgb_frame(before, littleEndian, width, height,
                                        rb, c[1], c[2], c[3]), 0)

CallFill10bitYuv ==
    /\ op = "none"
    /\ \E c \in FillTriplets :
       \E rb \in RowBytesChoices("bmdFormat10BitYUV", width), fill \in Fills :
        LET before == Buffer(rb, height, fill)
        IN  Called("fill_10bit_yuv_frame", "bmdFormat10BitYUV", rb, FALSE, c,
                   before,
                   fill_10bit_yuv_frame(before, littleEndian, width, height,
                                        rb, c[1], c[2], c[3]), 0)

CallFill12bitRgb ==
    /\ op = "none"
    /\ \E c \in FillTriplets :
       \E rb \in RowBytesChoices("bmdFormat12BitRGB", width), fill \in Fills :
        LET before == Buffer(rb, height, fill)
        IN  Called("fill_12bit_rgb_frame", "bmdFormat12BitRGB", rb, FALSE, c,
                   before,
                   fill_12bit_rgb_frame(before, width, height,
                                        rb, c[1], c[2], c[3]), 0)

Next ==
    \/ CallPack8bpcYuv
    \/ CallPack8bpcRgb
    \/ CallPack10bpcRgb
    \/ CallPack10bpcYuv
    \/ CallPack12bpcRgb
    \/ CallPackPixelFormat
    \/ CallFill10bitRgb
    \/ CallFill10bitYuv
    \/ CallFill12bitRgb

Spec == Init /\ [][Next]_vars

(***************************************************************************)
(* The slot sweep of the 12-bit packer: one group of 8 pixels, one of its  *)
(* 24 components at v in 0..4095, the other 23 at 0.                       *)
(***************************************************************************)
SweepSrc(slot, v) == Evaluated([j \in 0..23 |-> IF j = slot THEN v ELSE 0])

InitSweep12 ==
    /\ width = 8
    /\ height = 1
    /\ \E slot \in 0..23, v \in 0..4095 : srcData = SweepSrc(slot, v)
    /\ littleEndian = TRUE
    /\ NotCalled
    /\ NoDevice

SpecSweep12 == InitSweep12 /\ [][CallPack12bpcRgb]_vars

(***************************************************************************)
(* Reading a frame back.                                                   *)
(***************************************************************************)
Pixels == 0..(width * height - 1)

\* Component k (0, 1, 2) of pixel i of the caller's frame.
Sample(i, k) == srcData[3 * i + k]

\* The byte offset of pixel i's word in the 4-byte-per-pixel layouts.
WordOffset(i) == 4 * ((i \div width) * (rowBytes \div 4) + (i % width))

\* The destination before the call, as the packers take it.
Before == Mem(destBefore, {})

\* Where pack_8_12bpc_pixels_into_36_bytes stores component q = 3 * pixel +
\* channel of a group: the byte of its 8-bit part, the byte whose nibble
\* holds its 4-bit part, and which 8 bits the 8-bit part is.  A "low" slot
\* keeps bits 7..0 in part8 and bits 11..8 in the low nibble of part4
\* (channelB of swizzle_two_12); a "high" slot keeps bits 11..4 in part8 and
\* bits 3..0 in the high nibble of part4 (channelA).
Slots ==
    << [kind |-> "low",  part8 |-> 3,  part4 |-> 2],    \* r0
       [kind |-> "high", part8 |-> 1,  part4 |-> 2],    \* g0
       [kind |-> "low",  part8 |-> 0,  part4 |-> 7],    \* b0
       [kind |-> "high", part8 |-> 6,  part4 |-> 7],    \* r1
       [kind |-> "low",  part8 |-> 5,  part4 |-> 4],    \* g1
       [kind |-> "high", part8 |-> 11, part4 |-> 4],    \* b1
       [kind |-> "low",  part8 |-> 10, part4 |-> 9],    \* r2
       [kind |-> "high", part8 |-> 8,  part4 |-> 9],    \* g2
       [kind |-> "low",  part8 |-> 15, part4 |-> 14],   \* b2
       [kind |-> "high", part8 |-> 13, part4 |-> 14],   \* r3
       [kind |-> "low",  part8 |-> 12, part4 |-> 19],   \* g3
       [kind |-> "high", part8 |-> 18, part4 |-> 19],   \* b3
       [kind |-> "low",  part8 |-> 17, part4 |-> 16],   \* r4
       [kind |-> "high", part8 |-> 23, part4 |-> 16],   \* g4
       [kind |-> "low",  part8 |-> 22, part4 |-> 21],   \* b4
       [kind |-> "high", part8 |-> 20, part4 |-> 21],   \* r5
       [kind |-> "low",  part8 |-> 27, part4 |-> 26],   \* g5
       [kind |-> "high", part8 |-> 25, part4 |-> 26],   \* b5
       [kind |-> "low",  part8 |-> 24, part4 |-> 31],   \* r6
       [kind |-> "high", part8 |-> 30, part4 |-> 31],   \* g6
       [kind |-> "low",  part8 |-> 29, part4 |-> 28],   \* b6
       [kind |-> "high", part8 |-> 35, part4 |-> 28],   \* r7
       [kind |-> "low",  part8 |-> 34, part4 |-> 33],   \* g7
       [kind |-> "high", part8 |-> 32, part4 |-> 33] >> \* b7

\* Component q of the group at byte offset base, reassembled from its two
\* parts.
UnpackSlot(bytes, base, q) ==
    LET slot == Slots[q + 1]
        part8 == bytes[base + slot.part8]
        part4 == bytes[base + slot.part4]
    IN  IF slot.kind = "low"
        THEN 256 * (part4 % 16) + part8
        ELSE 16 * part8 + (part4 \div 16)

(***************************************************************************)
(* The claims.                                                             *)
(***************************************************************************)

\* C1: in the slot sweep of one 8-pixel group (a component at v in 0..4095,
\* the other 23 at 0), every one of the 24 components read back from the 36
\* packed bytes, by its 8-bit and its 4-bit part, is the value packed.
C1_RoundTrip12 ==
    (op = "pack_12bpc_rgb_image" /\ width = 8 /\ height = 1) =>
        \A q \in 0..23 : UnpackSlot(destData, 0, q) = srcData[q]

\* C2: for every pixel of pack_10bpc_rgb_image with R, G, B in 0..1023, the
\* 4 bytes written, read as a big-endian word, hold R in bits 29-20, G in
\* bits 19-10, B in bits 9-0 and zero in bits 31-30 (little-endian host).
C2_Rgb10Layout ==
    (op = "pack_10bpc_rgb_image" /\ littleEndian) =>
        \A i \in Pixels :
            (Sample(i, 0) <= 1023 /\ Sample(i, 1) <= 1023 /\ Sample(i, 2) <= 1023)
            => LET word == BigEndianWordAt(destData, WordOffset(i))
               IN  /\ Field(word, 20, 10) = Sample(i, 0)
                   /\ Field(word, 10, 10) = Sample(i, 1)
                   /\ Field(word, 0, 10) = Sample(i, 2)
                   /\ Field(word, 30, 2) = 0

\* The packer of the contract table for a format the dispatcher accepts.
OwnPacker(fmt, mem) ==
    CASE fmt = "bmdFormat8BitBGRA" ->
            pack_8bpc_rgb_image(mem, littleEndian, srcR, srcG, srcB,
                                width, height, rowBytes, TRUE)
      [] fmt = "bmdFormat8BitARGB" ->
            pack_8bpc_rgb_image(mem, littleEndian, srcR, srcG, srcB,
                                width, height, rowBytes, FALSE)
      [] fmt = "bmdFormat8BitYUV" ->
            pack_8bpc_yuv_image(mem, srcR, srcG, srcB, width, height, rowBytes)
      [] fmt = "bmdFormat10BitRGB" ->
            pack_10bpc_rgb_image(mem, littleEndian, srcR, srcG, srcB,
                                 width, height, rowBytes)
      [] fmt = "bmdFormat12BitRGB" ->
            pack_12bpc_rgb_image(mem, srcR, srcG, srcB, width, height, rowBytes)

\* C3: for every format pack_pixel_format accepts, the destination it
\* leaves is the one the format's own packer leaves on the split channels.
C3_DispatchRoutes ==
    (op = "pack_pixel_format" /\ ret = 0) =>
        LET own == OwnPacker(pixelFormat, Before)
        IN  destData = own.bytes /\ oobWrites = own.oob

\* The supported formats of the contract table.
ContractFormats == {"bmdFormat8BitBGRA", "bmdFormat8BitARGB",
                    "bmdFormat8BitYUV", "bmdFormat10BitRGB",
                    "bmdFormat10BitYUV", "bmdFormat12BitRGB",
                    "bmdFormat12BitRGBLE"}

\* C4: pack_pixel_format returns success, never the unsupported-format
\* error, for every supported format of the contract table.
C4_DispatchComplete ==
    (op = "pack_pixel_format" /\ pixelFormat \in ContractFormats) => ret = 0

\* The formats pack_pixel_format's switch has a case for.
RegisteredFormats == {"bmdFormat8BitBGRA", "bmdFormat8BitARGB",
                      "bmdFormat10BitRGB", "bmdFormat8BitYUV",
                      "bmdFormat12BitRGB"}

\* C5: for a format with no registered packer pack_pixel_format returns the
\* unsupported-format error code -8 and leaves every byte of the
\* destination as it was.
C5_UnsupportedNoWrite ==
    (op = "pack_pixel_format" /\ pixelFormat \notin RegisteredFormats) =>
        /\ ret = -8
        /\ destData = destBefore
        /\ oobWrites = {}

\* C5 witness: a call with an unregistered format on a non-empty buffer.
C5_Witness ==
    /\ op = "pack_pixel_format"
    /\ pixelFormat = "bmdFormat10BitRGBX"
    /\ ret = -8
    /\ DOMAIN destBefore # {}
    /\ destData = destBefore

\* The samples of the frame clamped to d bits.
ClampedSrc(d) ==
    Evaluated([j \in DOMAIN srcData |-> Min(srcData[j], 2 ^ d - 1)])

ClampedChannel(d, k) == Channel(ClampedSrc(d), k, width * height)

\* The word written for pixel i, as the host reads it back.
NativeWord(i) == WordAt(littleEndian, destData, WordOffset(i))

\* C6: the 8-bit packers encode min(v, 255) for every component: the R, G
\* and B bytes of both 8-bit RGB variants, and the luma byte the 8-bit YUV
\* packer stores for an even pixel.
C6_Clamp8 ==
    /\ op = "pack_8bpc_rgb_image" =>
        \A i \in Pixels :
            LET word == NativeWord(i)
            IN  /\ word[IF isBGRA THEN 2 ELSE 0] = Min(Sample(i, 0), 255)
                /\ word[1] = Min(Sample(i, 1), 255)
                /\ word[IF isBGRA THEN 0 ELSE 2] = Min(Sample(i, 2), 255)
    /\ op = "pack_8bpc_yuv_image" =>
        \A y \in 0..(height - 1), x \in 0..(width - 1) :
            x % 2 = 0 =>
                destData[y * rowBytes + 2 * x + 1]
                    = Min(Sample(y * width + x, 0), 255)

\* C7: the 10-bit RGB, 10-bit YUV and 12-bit RGB packers and the 10-bit and
\* 12-bit solid-fill helpers leave the bytes they leave for the samples
\* clamped to min(v, 1023), respectively min(v, 4095).
C7_Saturate ==
    /\ op = "pack_10bpc_rgb_image" =>
        destData = pack_10bpc_rgb_image(Before, littleEndian,
                        ClampedChannel(10, 0), ClampedChannel(10, 1),
                        ClampedChannel(10, 2), width, height, rowBytes).bytes
    /\ op = "pack_10bpc_yuv_image" =>
        destData = pack_10bpc_yuv_image(Before, littleEndian,
                        ClampedChannel(10, 0), ClampedChannel(10, 1),
                        ClampedChannel(10, 2), width, height, rowBytes).bytes
    /\ op = "pack_12bpc_rgb_image" =>
        destData = pack_12bpc_rgb_image(Before,
                        ClampedChannel(12, 0), ClampedChannel(12, 1),
                        ClampedChannel(12, 2), width, height, rowBytes).bytes
    /\ op = "fill_10bit_rgb_frame" =>
        destData = fill_10bit_rgb_frame(Before, littleEndian, width, height,
                        rowBytes, Min(fillColor[1], 1023),
                        Min(fillColor[2], 1023), Min(fillColor[3], 1023)).bytes
    /\ op = "fill_10bit_yuv_frame" =>
        destData = fill_10bit_yuv_frame(Before, littleEndian, width, height,
                        rowBytes, Min(fillColor[1], 1023),
                        Min(fillColor[2], 1023), Min(fillColor[3], 1023)).bytes
    /\ op = "fill_12bit_rgb_frame" =>
        destData = fill_12bit_rgb_frame(Before, width, height,
                        rowBytes, Min(fillColor[1], 4095),
                        Min(fillColor[2], 4095), Min(fillColor[3], 4095)).bytes

\* C7 witness: the 12-bit packer packed a red sample of 5000, and the low
\* 8 bits and the high nibble stored for it are those of 4095.
C7_Witness ==
    /\ op = "pack_12bpc_rgb_image"
    /\ Sample(0, 0) = 5000
    /\ destData[3] = 255
    /\ destData[2] % 16 = 15

\* C8: for an even width, the 4 bytes the 8-bit YUV packer leaves at row
\* offset 4k are U, Y of pixel 2k, then V of pixel 2k, then Y of pixel
\* 2k + 1, each clamped to 0..255.
C8_Yuv8Layout ==
    (op = "pack_8bpc_yuv_image" /\ width % 2 = 0) =>
        \A y \in 0..(height - 1), k \in 0..((width \div 2) - 1) :
            LET off == y * rowBytes + 4 * k
                p0 == y * width + 2 * k
            IN  /\ destData[off] = Min(Sample(p0, 1), 255)
                /\ destData[off + 1] = Min(Sample(p0, 0), 255)
                /\ destData[off + 2] = Min(Sample(p0, 2), 255)
                /\ destData[off + 3] = Min(Sample(p0 + 1, 0), 255)

C10_Yuv10Layout ==
    op = "pack_10bpc_yuv_image" =>
        \A i \in Pixels :
            (Sample(i, 0) <= 1023 /\ Sample(i, 1) <= 1023 /\ Sample(i, 2) <= 1023)
            => LET word == NativeWord(i)
               IN  /\ Field(word, 20, 10) = Sample(i, 2)
                   /\ Field(word, 10, 10) = Sample(i, 0)
                   /\ Field(word, 0, 10) = Sample(i, 1)
                   /\ Field(word, 30, 2) = 0

\* C10 witness: a packed pixel whose Y, U and V are three different
\* non-zero 10-bit values.
C10_Witness ==
    /\ op = "pack_10bpc_yuv_image"
    /\ \E i \in Pixels :
        /\ Sample(i, 0) = 300
        /\ Sample(i, 1) = 512
        /\ Sample(i, 2) = 1023
        /\ Field(NativeWord(i), 20, 10) = 1023

RequiredRowBytes(fmt, w) ==
    CASE fmt = "bmdFormat8BitYUV" -> (w * 16) \div 8
      [] fmt = "bmdFormat10BitRGB" -> ((w + 63) \div 64) * 256
      [] fmt = "bmdFormat12BitRGB" -> (w * 36) \div 8
      [] OTHER -> 4 * w

\* The calls followed: each packer, and the dispatcher for two of its
\* formats.
CallKinds ==
    { [op |-> "pack_8bpc_yuv_image", fmt |-> "bmdFormat8BitYUV", bgra |-> FALSE],
      [op |-> "pack_8bpc_rgb_image", fmt |-> "bmdFormat8BitBGRA", bgra |-> TRUE],
      [op |-> "pack_8bpc_rgb_image", fmt |-> "bmdFormat8BitARGB", bgra |-> FALSE],
      [op |-> "pack_10bpc_rgb_image", fmt |-> "bmdFormat10BitRGB", bgra |-> FALSE],
      [op |-> "pack_10bpc_yuv_image", fmt |-> "bmdFormat10BitYUV", bgra |-> FALSE],
      [op |-> "pack_12bpc_rgb_image", fmt |-> "bmdFormat12BitRGB", bgra |-> FALSE],
      [op |-> "pack_pixel_format", fmt |-> "bmdFormat8BitBGRA", bgra |-> FALSE],
      [op |-> "pack_pixel_format", fmt |-> "bmdFormat12BitRGB", bgra |-> FALSE] }

\* Frame widths of the calls followed: one pixel, a pixel pair, a 12-bit
\* group and a group with a trailing pixel.
CallWidths == {1, 2, 8, 9}

\* What the destination of the first and of the second call holds before.
CallFills == <<170, 85>>

\* The stores of a call of kind k with row-stride rb on the frame.
CallRows(k, rb) ==
    CASE k.op = "pack_8bpc_yuv_image" ->
            pack_8bpc_yuv_rows(srcR, srcG, srcB, width, height, rb)
      [] k.op = "pack_8bpc_rgb_image" ->
            pack_8bpc_rgb_rows(littleEndian, srcR, srcG, srcB,
                               width, height, rb, k.bgra)
      [] k.op = "pack_10bpc_rgb_image" ->
            pack_10bpc_rgb_rows(littleEndian, srcR, srcG, srcB,
                                width, height, rb)
      [] k.op = "pack_10bpc_yuv_image" ->
            pack_10bpc_yuv_rows(littleEndian, srcR, srcG, srcB,
                                width, height, rb)
      [] k.op = "pack_12bpc_rgb_image" ->
            pack_12bpc_rgb_rows(srcR, srcG, srcB, width, height, rb)
      [] k.op = "pack_pixel_format" ->
            pack_pixel_format_rows(littleEndian, k.fmt, srcData,
                                   width, height, rb)

\* The destination a call of kind k leaves when it runs alone, start to end.
CallAlone(k, rb, before) ==
    CASE k.op = "pack_8bpc_yuv_image" ->
            pack_8bpc_yuv_image(before, srcR, srcG, srcB, width, height, rb)
      [] k.op = "pack_8bpc_rgb_image" ->
            pack_8bpc_rgb_image(before, littleEndian, srcR, srcG, srcB,
                                width, height, rb, k.bgra)
      [] k.op = "pack_10bpc_rgb_image" ->
            pack_10bpc_rgb_image(before, littleEndian, srcR, srcG, srcB,
                                 width, height, rb)
      [] k.op = "pack_10bpc_yuv_image" ->
            pack_10bpc_yuv_image(before, littleEndian, srcR, srcG, srcB,
                                 width, height, rb)
      [] k.op = "pack_12bpc_rgb_image" ->
            pack_12bpc_rgb_image(before, srcR, srcG, srcB, width, height, rb)
      [] k.op = "pack_pixel_format" ->
            pack_pixel_format(before, littleEndian, k.fmt, srcData,
                              width, height, rb).mem

\* Every call's destination is its own.
store_row_shared(cs, c, y) ==
    [d \in DOMAIN cs |->
        LET rows == CallRows(cs[c].kind, cs[c].rb)
        IN  [cs[d] EXCEPT
                !.mem = StoreRow(@, rows[y].base, rows[y].fn),
                !.order = IF d = c THEN Append(@, y) ELSE @]]

\* Iteration y of call c's outer loop: its stores go to the call's own
\* destination.
store_row(cs, c, y) ==
    LET rows == CallRows(cs[c].kind, cs[c].rb)
    IN  [cs EXCEPT ![c].mem = StoreRow(@, rows[y].base, rows[y].fn),
                   ![c].order = Append(@, y)]

Range(seq) == {seq[i] : i \in DOMAIN seq}

InitRows ==
    /\ width \in CallWidths
    /\ height \in 1..MaxHeight
    /\ \E s \in {1, 6} : srcData = SrcPattern(s, 1, width * height)
    /\ littleEndian = TRUE
    /\ NotCalled
    /\ NoDevice

BeginCall ==
    /\ Len(calls) < Len(CallFills)
    /\ \E k \in CallKinds :
       \E rb \in {RequiredRowBytes(k.fmt, width)} :
        LET before == Buffer(rb, height, CallFills[Len(calls) + 1])
        IN  calls' = Append(calls, [kind |-> k, rb |-> rb,
                                    before |-> before, mem |-> before,
                                    order |-> <<>>])
    /\ UNCHANGED <<width, height, srcData, littleEndian, op, pixelFormat,
                   rowBytes, isBGRA, fillColor, destBefore, destData,
                   oobWrites, ret>>
    /\ UNCHANGED deviceVars

StoreRowStep ==
    /\ \E c \in DOMAIN calls :
       \E y \in (0..(height - 1)) \ Range(calls[c].order) :
            calls' = store_row(calls, c, y)
    /\ UNCHANGED <<width, height, srcData, littleEndian, op, pixelFormat,
                   rowBytes, isBGRA, fillColor, destBefore, destData,
                   oobWrites, ret>>
    /\ UNCHANGED deviceVars

NextRows == BeginCall \/ StoreRowStep

SpecRows == InitRows /\ [][NextRows]_vars

\* Call c has stored all its rows.
Complete(c) == Len(calls[c].order) = height

\* Call c has stored its rows in the order of the loop.
InOrder(c) == \A i \in DOMAIN calls[c].order : calls[c].order[i] = i - 1

\* The bytes of one packed row of a format.
PackedRowLen(fmt, w) ==
    CASE fmt = "bmdFormat8BitYUV" -> 2 * w
      [] fmt = "bmdFormat12BitRGB" -> 36 * ((w + 7) \div 8)
      [] OTHER -> 4 * w

\* The destination offsets that hold the frame's pixels.
FrameOffsets(fmt, rb, bytes) ==
    {off \in DOMAIN bytes : off % rb < PackedRowLen(fmt, width)}

\* C13: two calls that pack the same frame in the same format with the same
\* row-stride into two destinations leave the same bytes at the offsets
\* that hold the frame's pixels, whatever the destinations held before.
C13_Deterministic ==
    \A c, d \in DOMAIN calls :
        (/\ calls[c].kind = calls[d].kind
         /\ calls[c].rb = calls[d].rb
         /\ Complete(c) /\ InOrder(c)
         /\ Complete(d) /\ InOrder(d))
        => \A off \in FrameOffsets(calls[c].kind.fmt, calls[c].rb,
                                   calls[c].mem.bytes) :
                calls[c].mem.bytes[off] = calls[d].mem.bytes[off]

\* C16: with the row-stride the format requires, the stores of row N lie
\* inside row N's stride, and a call whose rows were stored as separate
\* steps in any order leaves the destination the sequential call leaves.
C16_RowParallel ==
    \A c \in DOMAIN calls :
        LET rows == CallRows(calls[c].kind, calls[c].rb)
        IN  /\ \A y \in DOMAIN rows :
                \A j \in DOMAIN rows[y].fn :
                    /\ rows[y].base + j >= y * calls[c].rb
                    /\ rows[y].base + j < (y + 1) * calls[c].rb
            /\ Complete(c) =>
                calls[c].mem = CallAlone(calls[c].kind, calls[c].rb,
                                         calls[c].before)

Fill12Values == {0, 16, 2048, 4095}

InitFill12 ==
    /\ width \in {4, 8}
    /\ height \in {1, 4}
    /\ srcData = SrcPattern(0, 0, width * height)
    /\ littleEndian = TRUE
    /\ NotCalled
    /\ NoDevice

CallFill12bitRgbTriplet ==
    /\ op = "none"
    /\ \E c \in Fill12Values \X Fill12Values \X Fill12Values :
       \E rb \in RowBytesChoices("bmdFormat12BitRGB", width), fill \in Fills :
        LET before == Buffer(rb, height, fill)
        IN  Called("fill_12bit_rgb_frame", "bmdFormat12BitRGB", rb, FALSE, c,
                   before,
                   fill_12bit_rgb_frame(before, width, height,
                                        rb, c[1], c[2], c[3]), 0)

SpecFill12 == InitFill12 /\ [][CallFill12bitRgbTriplet]_vars

\* C14: after a solid fill of a 12-bit frame with a triplet in 0..4095,
\* every pixel position of the frame, unpacked from the destination, is
\* that triplet; so for the 4x4 frame filled with (4095, 2048, 0).
C14_SolidFill12 ==
    (/\ op = "fill_12bit_rgb_frame"
     /\ \A c \in 1..3 : fillColor[c] <= 4095) =>
        \A y \in 0..(height - 1), x \in 0..(width - 1), c \in 0..2 :
            LET base == y * rowBytes + 36 * (x \div 8)
                q == 3 * (x % 8) + c
            IN  /\ base + Slots[q + 1].part8 \in DOMAIN destData
                /\ base + Slots[q + 1].part4 \in DOMAIN destData
                /\ UnpackSlot(destData, base, q) = fillColor[c + 1]

\* C15: the three channel buffers of the dispatcher have width * height
\* entries, entry i of channel k being sample 3 * i + k of the buffer of
\* 3 * width * height samples; so the BGRA word of pixel i holds the low
\* bytes of samples 3i, 3i + 1 and 3i + 2.
C15_ChannelExtraction ==
    op = "pack_pixel_format" =>
        /\ DOMAIN srcData = 0..(3 * width * height - 1)
        /\ \A k \in 0..2 :
            LET channel == Channel(srcData, k, width * height)
            IN  /\ DOMAIN channel = 0..(width * height - 1)
                /\ \A i \in Pixels : channel[i] = srcData[3 * i + k]
        /\ pixelFormat = "bmdFormat8BitBGRA" =>
            \A i \in Pixels :
                /\ NativeWord(i)[2] = srcData[3 * i] % 256
                /\ NativeWord(i)[1] = srcData[3 * i + 1] % 256
                /\ NativeWord(i)[0] = srcData[3 * i + 2] % 256

\* C15 witness: the dispatcher packed a BGRA frame of two rows whose last
\* pixel has three different components, found in its word.
C15_Witness ==
    /\ op = "pack_pixel_format"
    /\ pixelFormat = "bmdFormat8BitBGRA"
    /\ height = 2
    /\ width = 3
    /\ Sample(5, 0) = 15
    /\ Sample(5, 1) = 16
    /\ Sample(5, 2) = 128
    /\ NativeWord(5)[2] = 15
    /\ NativeWord(5)[0] = 128

\* C19: with rowBytes = (width * 36) / 8 and a destination of rowBytes *
\* height bytes, the 12-bit RGB packer writes no byte at an offset >=
\* rowBytes * height.
C19_Pack12InBounds ==
    (op = "pack_12bpc_rgb_image" /\ rowBytes = (width * 36) \div 8) =>
        /\ DOMAIN destData = 0..(rowBytes * height - 1)
        /\ oobWrites = {}

\* C20: with isBGRA = false and R, G, B in 0..255 the word of a pixel is
\* 0xFF in bits 31-24, R in bits 23-16, G in bits 15-8 and B in bits 7-0,
\* and is the BGRA word of the pixel with the R and B bytes exchanged.
C20_ArgbWord ==
    (op = "pack_8bpc_rgb_image" /\ ~isBGRA) =>
        \A i \in Pixels :
            (Sample(i, 0) <= 255 /\ Sample(i, 1) <= 255 /\ Sample(i, 2) <= 255)
            => LET word == NativeWord(i)
                   bgra == rgb8_color(srcR, srcG, srcB, i, TRUE)
               IN  /\ word[3] = 255
                   /\ word[2] = Sample(i, 0)
                   /\ word[1] = Sample(i, 1)
                   /\ word[0] = Sample(i, 2)
                   /\ word[3] = bgra[3]
                   /\ word[2] = bgra[0]
                   /\ word[1] = bgra[1]
                   /\ word[0] = bgra[2]

(***************************************************************************)
(* DeckLinkSignalGen (src/cpp/decklink_wrapper.cpp).  gen holds the        *)
(* object's members: a pointer member is TRUE when non-null, m_frame is    *)
(* <<>> when null and <<frame>> when a frame is held, and                  *)
(* m_pendingFrameData is <<>> when empty.  A frame records the arguments   *)
(* of CreateVideoFrame, how its buffer was filled and whether the HDR      *)
(* metadata flag is set.  hw holds what the output interface was asked to  *)
(* do: the formats the device supports, whether video output is enabled,   *)
(* the frames scheduled and whether scheduled playback runs.               *)
(***************************************************************************)
\* BMDPixelFormat values (DeckLinkAPI.h): four-character codes, and 32 for
\* bmdFormat8BitARGB.
BMDPixelFormatCode ==
    [f \in PixelFormats |->
        CASE f = "bmdFormat8BitYUV" -> 846624121
          [] f = "bmdFormat10BitYUV" -> 1983000880
          [] f = "bmdFormat8BitARGB" -> 32
          [] f = "bmdFormat8BitBGRA" -> 1111970369
          [] f = "bmdFormat10BitRGB" -> 1915892016
          [] f = "bmdFormat12BitRGB" -> 1378955842
          [] f = "bmdFormat12BitRGBLE" -> 1378955852
          [] f = "bmdFormat10BitRGBXLE" -> 1378955372
          [] f = "bmdFormat10BitRGBX" -> 1378955362]

\* The format a BMDPixelFormat value names.
FormatOfCode(code) == CHOOSE f \in PixelFormats : BMDPixelFormatCode[f] = code

\* The formats cacheSupportedFormats probes, in its order.
ProbeOrder == <<"bmdFormat12BitRGB", "bmdFormat10BitRGB", "bmdFormat10BitYUV",
                "bmdFormat10BitRGBX", "bmdFormat10BitRGBXLE",
                "bmdFormat8BitBGRA", "bmdFormat8BitARGB", "bmdFormat8BitYUV">>

\* The elements of a std::set<BMDPixelFormat> from begin() to end():
\* ascending by value.
SetOrder(S) ==
    [i \in 1..Cardinality(S) |->
        CHOOSE f \in S :
            Cardinality({x \in S : BMDPixelFormatCode[x]
                                        < BMDPixelFormatCode[f]}) = i - 1]

cacheSupportedFormats(g, h) ==
    IF ~g.m_output THEN g
    ELSE LET uniqueFormats == {ProbeOrder[i] : i \in DOMAIN ProbeOrder}
                                  \cap h.supports
         IN  [g EXCEPT !.m_supportedFormats = SetOrder(uniqueFormats),
                       !.m_formatsCached = TRUE]

\* The object after the constructor and a successful openDevice.
OpenedGen ==
    [m_device |-> TRUE, m_output |-> TRUE, m_frame |-> <<>>,
     m_width |-> 1920, m_height |-> 1080, m_outputEnabled |-> FALSE,
     m_pixelFormat |-> "bmdFormat8BitBGRA", m_eotfType |-> -1,
     m_maxCLL |-> 0, m_maxFALL |-> 0, m_formatsCached |-> FALSE,
     m_supportedFormats |-> <<>>, m_pendingFrameData |-> <<>>]

setEOTFMetadata(g, eotf, maxCLL, maxFALL) ==
    [gen |-> [g EXCEPT !.m_eotfType = eotf, !.m_maxCLL = maxCLL,
                       !.m_maxFALL = maxFALL],
     ret |-> 0]

\* data is 0 for a null pointer, else the identity of the caller's buffer.
setFrameData(g, h, data, w, ht, pixel_format) ==
    IF ~g.m_output \/ data = 0 THEN [gen |-> g, ret |-> -1]
    ELSE
    LET cached == IF pixel_format < 100 /\ ~g.m_formatsCached
                  THEN cacheSupportedFormats(g, h) ELSE g
        targetFormat ==
            IF pixel_format < 100
            THEN IF pixel_format < Len(cached.m_supportedFormats)
                 THEN cached.m_supportedFormats[pixel_format + 1]
                 ELSE g.m_pixelFormat
            ELSE FormatOfCode(pixel_format)
        updated ==
            IF w # g.m_width \/ ht # g.m_height
                             \/ targetFormat # g.m_pixelFormat
            THEN [cached EXCEPT !.m_width = w, !.m_height = ht,
                                !.m_pixelFormat = targetFormat,
                                !.m_frame = <<>>]
            ELSE cached
    IN  [gen |-> [updated EXCEPT !.m_pendingFrameData =
                        <<[data |-> data, width |-> w, height |-> ht]>>],
         ret |-> 0]

\* The frame CreateVideoFrame returns: nothing written to its buffer, no
\* metadata set by this program, no buffer access open.
NewFrame(w, ht, rb, fmt) ==
    [width |-> w, height |-> ht, rowBytes |-> rb, pixelFormat |-> fmt,
     fill |-> <<>>, access |-> 0,
     eotf |-> -1, maxCLL |-> 0, maxFALL |-> 0, hdrFlag |-> FALSE]

\* The switch of startOutput over m_pixelFormat: what writes the frame's
\* buffer.  by is the function called, maxValue the full scale the 8-bit
\* samples are converted to before the call, data the pending buffer read.
frame_fill(fmt, data) ==
    CASE fmt = "bmdFormat8BitBGRA" ->
            [by |-> "pack_8bit_rgb_image", isBGRA |-> TRUE,
             maxValue |-> 255, data |-> data]
      [] fmt = "bmdFormat8BitARGB" ->
            [by |-> "pack_8bit_rgb_image", isBGRA |-> FALSE,
             maxValue |-> 255, data |-> data]
      [] fmt = "bmdFormat10BitRGB" ->
            [by |-> "pack_10bit_rgb_image", isBGRA |-> FALSE,
             maxValue |-> 1023, data |-> data]
      [] fmt = "bmdFormat10BitYUV" ->
            [by |-> "pack_10bit_yuv_image", isBGRA |-> FALSE,
             maxValue |-> 1023, data |-> data]
      [] fmt = "bmdFormat12BitRGB" ->
            [by |-> "pack_12bit_rgb_image", isBGRA |-> FALSE,
             maxValue |-> 4095, data |-> data]
      [] OTHER ->
            [by |-> "memcpy", isBGRA |-> FALSE,
             maxValue |-> 255, data |-> data]

\* An 8-bit sample widened by a left shift to the depth of maxValue.
prescale_by_shift(v, maxValue) == v * ((maxValue + 1) \div 256)

\* The conversion of an 8-bit sample in the 10-bit and 12-bit RGB arms of
\* the switch (int arithmetic, the quotient stored in a uint16_t).
prescale(v, maxValue) == ((v * maxValue) \div 255) % 65536

\* The channel arrays the RGB arms of the switch hand to their packer, for
\* pending data of n pixels (3 bytes per pixel: R, G, B).
packer_channels(fmt, pending, n) ==
    LET maxValue == frame_fill(fmt, 0).maxValue
        converted(k) ==
            Evaluated([i \in 0..(n - 1) |->
                IF fmt \in {"bmdFormat10BitRGB", "bmdFormat12BitRGB"}
                THEN prescale(pending[i * 3 + k], maxValue)
                ELSE pending[i * 3 + k]])
    IN  [r |-> converted(0), g |-> converted(1), b |-> converted(2)]

\* The device calls of startOutput that can fail.
StartOutputCalls ==
    {"EnableVideoOutput", "RowBytesForPixelFormat", "CreateVideoFrame",
     "QueryInterface", "StartAccess", "GetBytes",
     "MetadataQueryInterface", "ScheduleVideoFrame",
     "StartScheduledPlayback"}

\* fail names the device call that fails, "none" when all succeed.
applyEOTFMetadata(g, fail) ==
    IF g.m_frame = <<>> \/ g.m_eotfType < 0 THEN [gen |-> g, ret |-> 0]
    ELSE IF fail = "MetadataQueryInterface" THEN [gen |-> g, ret |-> -1]
    ELSE
    LET f0 == g.m_frame[1]
        f1 == IF g.m_eotfType >= 0 /\ g.m_eotfType <= 7
              THEN [f0 EXCEPT !.eotf = g.m_eotfType] ELSE f0
        f2 == IF g.m_maxCLL > 0
              THEN [f1 EXCEPT !.maxCLL = g.m_maxCLL] ELSE f1
        f3 == IF g.m_maxFALL > 0
              THEN [f2 EXCEPT !.maxFALL = g.m_maxFALL] ELSE f2
        f4 == [f3 EXCEPT !.hdrFlag = TRUE]
    IN  [gen |-> [g EXCEPT !.m_frame = <<f4>>], ret |-> 0]

\* The block of startOutput that creates the frame from the pending data;
\* ret 0 stands for falling through to the code after the block.  rb is
\* the device's answer to RowBytesForPixelFormat.
frame_from_pending(g, fail, rb) ==
    IF fail = "RowBytesForPixelFormat" THEN [gen |-> g, ret |-> -3]
    ELSE IF fail = "CreateVideoFrame" THEN [gen |-> g, ret |-> -4]
    ELSE
    LET created == [g EXCEPT !.m_frame =
                        <<NewFrame(g.m_width, g.m_height, rb,
                                   g.m_pixelFormat)>>]
        filled == [created EXCEPT !.m_frame[1].fill =
                        <<frame_fill(g.m_pixelFormat,
                                     g.m_pendingFrameData[1].data)>>]
    IN  IF fail = "QueryInterface" THEN [gen |-> created, ret |-> -5]
        ELSE IF fail = "StartAccess" THEN [gen |-> created, ret |-> -6]
        ELSE IF fail = "GetBytes" THEN [gen |-> created, ret |-> -7]
        ELSE IF filled.m_eotfType >= 0 THEN applyEOTFMetadata(filled, fail)
        ELSE [gen |-> filled, ret |-> 0]

\* builds tells whether the call entered the block that creates the frame
\* from the pending data.
startOutput(g, h, fail, rb) ==
    IF ~g.m_output
    THEN [gen |-> g, hw |-> h, ret |-> -1, builds |-> FALSE]
    ELSE IF g.m_outputEnabled
    THEN [gen |-> g, hw |-> h, ret |-> 0, builds |-> FALSE]
    ELSE IF fail = "EnableVideoOutput"
    THEN [gen |-> g, hw |-> h, ret |-> -2, builds |-> FALSE]
    ELSE
    LET enabled == [g EXCEPT !.m_outputEnabled = TRUE]
        h1 == [h EXCEPT !.enabled = TRUE]
        builds == enabled.m_frame = <<>> /\ enabled.m_pendingFrameData # <<>>
        built == IF builds THEN frame_from_pending(enabled, fail, rb)
                 ELSE [gen |-> enabled, ret |-> 0]
        h2 == [h1 EXCEPT !.scheduled = Append(@, built.gen.m_frame[1])]
    IN  IF built.ret # 0
             THEN [gen |-> built.gen, hw |-> h1, ret |-> built.ret,
                   builds |-> builds]
        ELSE IF built.gen.m_frame = <<>>
             THEN [gen |-> built.gen, hw |-> h1, ret |-> -8,
                   builds |-> builds]
        ELSE IF fail = "ScheduleVideoFrame"
             THEN [gen |-> built.gen, hw |-> h1, ret |-> -9,
                   builds |-> builds]
        ELSE IF fail = "StartScheduledPlayback"
             THEN [gen |-> built.gen, hw |-> h2, ret |-> -10,
                   builds |-> builds]
        ELSE [gen |-> built.gen, hw |-> [h2 EXCEPT !.playing = TRUE],
              ret |-> 0, builds |-> builds]

\* DisableVideoOutput drops what was scheduled: hw.scheduled lists the
\* frames scheduled since video output was last enabled.
stopOutput(g, h) ==
    IF ~g.m_outputEnabled THEN [gen |-> g, hw |-> h, ret |-> 0]
    ELSE [gen |-> [g EXCEPT !.m_outputEnabled = FALSE],
          hw |-> [h EXCEPT !.playing = FALSE, !.enabled = FALSE,
                           !.scheduled = <<>>],
          ret |-> 0]

\* ok tells whether the iterator yields the device and its output
\* interface.  The members are overwritten without a Release.
openDevice(g, ok) ==
    IF ok THEN [gen |-> [g EXCEPT !.m_device = TRUE, !.m_output = TRUE],
                ret |-> TRUE]
    ELSE [gen |-> g, ret |-> FALSE]

\* closeDevice without the stopOutput of an enabled output.
closeDevice_output_left(g, h) ==
    [gen |-> [g EXCEPT !.m_frame = <<>>, !.m_output = FALSE,
                       !.m_device = FALSE, !.m_formatsCached = FALSE,
                       !.m_supportedFormats = <<>>],
     hw |-> h,
     released |-> [frame |-> IF g.m_frame # <<>> THEN 1 ELSE 0,
                   output |-> IF g.m_output THEN 1 ELSE 0,
                   device |-> IF g.m_device THEN 1 ELSE 0]]

\* closeDevice leaving m_frame as it is after the Release.
closeDevice_frame_kept(g, h) ==
    LET stopped == IF g.m_outputEnabled THEN stopOutput(g, h)
                   ELSE [gen |-> g, hw |-> h, ret |-> 0]
        s == stopped.gen
    IN  [gen |-> [s EXCEPT !.m_output = FALSE,
                           !.m_device = FALSE, !.m_formatsCached = FALSE,
                           !.m_supportedFormats = <<>>],
         hw |-> stopped.hw,
         released |-> [frame |-> IF s.m_frame # <<>> THEN 1 ELSE 0,
                       output |-> IF s.m_output THEN 1 ELSE 0,
                       device |-> IF s.m_device THEN 1 ELSE 0]]

\* released counts the Release calls made on the frame, the output and the
\* device.
closeDevice(g, h) ==
    LET stopped == IF g.m_outputEnabled THEN stopOutput(g, h)
                   ELSE [gen |-> g, hw |-> h, ret |-> 0]
        s == stopped.gen
    IN  [gen |-> [s EXCEPT !.m_frame = <<>>, !.m_output = FALSE,
                           !.m_device = FALSE, !.m_formatsCached = FALSE,
                           !.m_supportedFormats = <<>>],
         hw |-> stopped.hw,
         released |-> [frame |-> IF s.m_frame # <<>> THEN 1 ELSE 0,
                       output |-> IF s.m_output THEN 1 ELSE 0,
                       device |-> IF s.m_device THEN 1 ELSE 0]]

getSupportedPixelFormats(g, h) ==
    LET cached == IF ~g.m_formatsCached THEN cacheSupportedFormats(g, h)
                  ELSE g
    IN  [gen |-> cached, ret |-> cached.m_supportedFormats]

\* setPixelFormat selecting the first format for an invalid index.
setPixelFormat_first_on_invalid(g, h, pixelFormatIndex) ==
    LET cached == IF ~g.m_formatsCached THEN cacheSupportedFormats(g, h)
                  ELSE g
        first == IF cached.m_supportedFormats = <<>> THEN cached
                 ELSE [cached EXCEPT !.m_pixelFormat =
                            cached.m_supportedFormats[1]]
    IN  IF pixelFormatIndex < 0
           \/ pixelFormatIndex >= Len(cached.m_supportedFormats)
        THEN [gen |-> first, ret |-> -1]
        ELSE [gen |-> [cached EXCEPT !.m_pixelFormat =
                            cached.m_supportedFormats[pixelFormatIndex + 1]],
              ret |-> 0]

setPixelFormat(g, h, pixelFormatIndex) ==
    LET cached == IF ~g.m_formatsCached THEN cacheSupportedFormats(g, h)
                  ELSE g
    IN  IF pixelFormatIndex < 0
           \/ pixelFormatIndex >= Len(cached.m_supportedFormats)
        THEN [gen |-> cached, ret |-> -1]
        ELSE [gen |-> [cached EXCEPT !.m_pixelFormat =
                            cached.m_supportedFormats[pixelFormatIndex + 1]],
              ret |-> 0]

getPixelFormat(g, h) ==
    LET cached == IF ~g.m_formatsCached THEN cacheSupportedFormats(g, h)
                  ELSE g
        hits == {i \in 0..(Len(cached.m_supportedFormats) - 1) :
                    cached.m_supportedFormats[i + 1] = cached.m_pixelFormat}
    IN  [gen |-> cached,
         ret |-> IF hits = {} THEN -1
                 ELSE CHOOSE i \in hits : \A j \in hits : i <= j]

\* The device calls of getFrameBuffer that can fail.
GetFrameBufferCalls ==
    {"EnableVideoOutput", "RowBytesForPixelFormat", "CreateVideoFrame",
     "QueryInterface", "StartAccess", "GetBytes"}

\* args tells whether width, height and row_bytes are all non-null; fail
\* names the device call that fails, "none" when all succeed; rb is the
\* device's answer to RowBytesForPixelFormat.  ptr tells whether a buffer
\* pointer is returned; width, height and row_bytes are what is stored
\* through the arguments (0 where nothing is stored).
getFrameBuffer(g, h, args, fail, rb) ==
    LET null(g1, h1) == [gen |-> g1, hw |-> h1, ptr |-> FALSE,
                         width |-> 0, height |-> 0, row_bytes |-> 0]
        enables == g.m_frame = <<>> /\ ~g.m_outputEnabled
        enabled == IF enables THEN [g EXCEPT !.m_outputEnabled = TRUE] ELSE g
        h1 == IF enables THEN [h EXCEPT !.enabled = TRUE] ELSE h
        framed == IF g.m_frame = <<>>
                  THEN [enabled EXCEPT !.m_frame =
                            <<NewFrame(g.m_width, g.m_height, rb,
                                       g.m_pixelFormat)>>]
                  ELSE enabled
        accessed == [framed EXCEPT !.m_frame[1].access = @ + 1]
    IN  IF ~g.m_output \/ ~args THEN null(g, h)
        ELSE IF enables /\ fail = "EnableVideoOutput" THEN null(g, h)
        ELSE IF g.m_frame = <<>> /\ fail = "RowBytesForPixelFormat"
             THEN null(enabled, h1)
        ELSE IF g.m_frame = <<>> /\ fail = "CreateVideoFrame"
             THEN null(enabled, h1)
        ELSE IF fail = "QueryInterface" THEN null(framed, h1)
        ELSE IF fail = "StartAccess" THEN null(framed, h1)
        ELSE IF fail = "GetBytes" THEN null(framed, h1)
        ELSE [gen |-> accessed, hw |-> h1, ptr |-> TRUE,
              width |-> g.m_width, height |-> g.m_height,
              row_bytes |-> IF fail = "RowBytesForPixelFormat" THEN 0
                            ELSE rb]

commitFrame(g, fail) ==
    IF g.m_frame = <<>> THEN [gen |-> g, ret |-> -1]
    ELSE IF g.m_eotfType >= 0 THEN applyEOTFMetadata(g, fail)
    ELSE [gen |-> g, ret |-> 0]

(***************************************************************************)
(* The generator driven by its callers: setFrameData, setEOTFMetadata,     *)
(* startOutput, stopOutput and the other public operations in any order    *)
(* with any arguments of the sets below, any one device call of an         *)
(* operation failing.  The device     *)
(* answers RowBytesForPixelFormat with the format's documented row size.   *)
(* result is the last call and what it returned.                           *)
(***************************************************************************)
\* Sets of formats a device accepts in DoesSupportVideoMode.
DeviceSupports ==
    {{"bmdFormat8BitYUV", "bmdFormat8BitBGRA", "bmdFormat10BitRGB"},
     {ProbeOrder[i] : i \in DOMAIN ProbeOrder}}

\* Caller's buffers: 0 is the null pointer.
DataIds == {0, 1, 2}

Geometries == {<<1920, 1080>>, <<2, 1>>}

\* pixel_format arguments: indices (one past every list), and
\* BMDPixelFormat values.
PixelFormatArgs ==
    {0, 9} \cup {BMDPixelFormatCode[f] :
                    f \in {"bmdFormat8BitYUV", "bmdFormat8BitARGB",
                           "bmdFormat12BitRGB"}}

\* <<eotf, maxCLL, maxFALL>> arguments of setEOTFMetadata.
EotfSettings == {<<-1, 0, 0>>, <<2, 1000, 0>>}

InitDevice ==
    /\ width = 1 /\ height = 1
    /\ srcData = SrcPattern(0, 0, 1)
    /\ littleEndian = TRUE
    /\ NotCalled
    /\ gen = OpenedGen
    /\ \E sup \in DeviceSupports :
            hw = [supports |-> sup, enabled |-> FALSE,
                  scheduled |-> <<>>, playing |-> FALSE]
    /\ result = [op |-> "openDevice", ret |-> 0, builds |-> FALSE]

\* setFrameData with arguments of the given sets.
SetFrameDataOf(datas, geos, formats) ==
    \E data \in datas, geo \in geos, pixel_format \in formats :
        LET r == setFrameData(gen, hw, data, geo[1], geo[2], pixel_format)
        IN  /\ gen' = r.gen
            /\ result' = [op |-> "setFrameData", ret |-> r.ret,
                          builds |-> FALSE]
            /\ UNCHANGED <<hw, codecVars>>

SetFrameData == SetFrameDataOf(DataIds, Geometries, PixelFormatArgs)

SetEOTFMetadata ==
    \E e \in EotfSettings :
        LET r == setEOTFMetadata(gen, e[1], e[2], e[3])
        IN  /\ gen' = r.gen
            /\ result' = [op |-> "setEOTFMetadata", ret |-> r.ret,
                          builds |-> FALSE]
            /\ UNCHANGED <<hw, codecVars>>

StartOutput ==
    \E fail \in StartOutputCalls \cup {"none"} :
        LET r == startOutput(gen, hw, fail,
                             RequiredRowBytes(gen.m_pixelFormat, gen.m_width))
        IN  /\ gen' = r.gen
            /\ hw' = r.hw
            /\ result' = [op |-> "startOutput", ret |-> r.ret,
                          builds |-> r.builds]
            /\ UNCHANGED codecVars

StopOutput ==
    LET r == stopOutput(gen, hw)
    IN  /\ gen' = r.gen
        /\ hw' = r.hw
        /\ result' = [op |-> "stopOutput", ret |-> r.ret, builds |-> FALSE]
        /\ UNCHANGED codecVars

NextDevice == SetFrameData \/ SetEOTFMetadata \/ StartOutput \/ StopOutput

SpecDevice == InitDevice /\ [][NextDevice]_vars

\* pixelFormatIndex arguments of setPixelFormat: below and inside the
\* lists, and past the end of a list the device has no output for.
PixelFormatIndexes == {-1, 0, 1}

\* The most write accesses held open on one frame's buffer.
MaxAccess == 1

OpenDevice ==
    \E ok \in BOOLEAN :
        LET r == openDevice(gen, ok)
        IN  /\ gen' = r.gen
            /\ result' = [op |-> "openDevice", ret |-> IF r.ret THEN 1 ELSE 0,
                          builds |-> FALSE]
            /\ UNCHANGED <<hw, codecVars>>

CloseDevice ==
    LET r == closeDevice(gen, hw)
    IN  /\ gen' = r.gen
        /\ hw' = r.hw
        /\ result' = [op |-> "closeDevice", ret |-> 0, builds |-> FALSE,
                      released |-> r.released]
        /\ UNCHANGED codecVars

GetSupportedPixelFormats ==
    LET r == getSupportedPixelFormats(gen, hw)
    IN  /\ gen' = r.gen
        /\ result' = [op |-> "getSupportedPixelFormats", ret |-> 0,
                      builds |-> FALSE, list |-> r.ret]
        /\ UNCHANGED <<hw, codecVars>>

SetPixelFormat ==
    \E pixelFormatIndex \in PixelFormatIndexes :
        LET r == setPixelFormat(gen, hw, pixelFormatIndex)
        IN  /\ gen' = r.gen
            /\ result' = [op |-> "setPixelFormat", ret |-> r.ret,
                          builds |-> FALSE, index |-> pixelFormatIndex]
            /\ UNCHANGED <<hw, codecVars>>

GetPixelFormat ==
    LET r == getPixelFormat(gen, hw)
    IN  /\ gen' = r.gen
        /\ result' = [op |-> "getPixelFormat", ret |-> r.ret,
                      builds |-> FALSE]
        /\ UNCHANGED <<hw, codecVars>>

GetFrameBuffer ==
    /\ \A i \in DOMAIN gen.m_frame : gen.m_frame[i].access < MaxAccess
    /\ \E args \in BOOLEAN, fail \in GetFrameBufferCalls \cup {"none"} :
        LET r == getFrameBuffer(gen, hw, args, fail,
                                RequiredRowBytes(gen.m_pixelFormat,
                                                 gen.m_width))
        IN  /\ gen' = r.gen
            /\ hw' = r.hw
            /\ result' = [op |-> "getFrameBuffer",
                          ret |-> IF r.ptr THEN 1 ELSE 0, builds |-> FALSE,
                          width |-> r.width, height |-> r.height,
                          row_bytes |-> r.row_bytes]
            /\ UNCHANGED codecVars

CommitFrame ==
    \E fail \in {"none", "MetadataQueryInterface"} :
        LET r == commitFrame(gen, fail)
        IN  /\ gen' = r.gen
            /\ result' = [op |-> "commitFrame", ret |-> r.ret,
                          builds |-> FALSE]
            /\ UNCHANGED <<hw, codecVars>>

\* Every public operation, setFrameData with one buffer, one geometry
\* and the pixel_format indices 0 and 9.
NextLifecycle ==
    \/ SetFrameDataOf({0, 1}, {<<2, 1>>}, {0, 9})
    \/ SetEOTFMetadata \/ StartOutput \/ StopOutput
    \/ OpenDevice \/ CloseDevice
    \/ GetSupportedPixelFormats \/ SetPixelFormat \/ GetPixelFormat
    \/ GetFrameBuffer \/ CommitFrame

SpecLifecycle == InitDevice /\ [][NextLifecycle]_vars

\* The formats with a case of their own in the switch of startOutput.
StartOutputPacked ==
    {"bmdFormat8BitBGRA", "bmdFormat8BitARGB", "bmdFormat10BitRGB",
     "bmdFormat10BitYUV", "bmdFormat12BitRGB"}

\* C18: when startOutput builds the frame from pending data and the pixel
\* format has no packer in the switch, the call reports an error and the
\* frame is neither filled by a raw copy, nor flagged as carrying HDR
\* metadata, nor scheduled; and no frame is ever flagged or scheduled
\* unless a packer filled it.
C18_NoSilentFallback ==
    /\ (/\ result.op = "startOutput"
        /\ result.builds
        /\ gen.m_pixelFormat \notin StartOutputPacked)
       => /\ result.ret # 0
          /\ \A i \in DOMAIN gen.m_frame :
                /\ \A k \in DOMAIN gen.m_frame[i].fill :
                        gen.m_frame[i].fill[k].by # "memcpy"
                /\ ~gen.m_frame[i].hdrFlag
          /\ hw.scheduled = <<>>
    /\ \A i \in DOMAIN gen.m_frame :
            gen.m_frame[i].hdrFlag
                => \E k \in DOMAIN gen.m_frame[i].fill :
                        gen.m_frame[i].fill[k].by # "memcpy"
    /\ \A j \in DOMAIN hw.scheduled :
            \E k \in DOMAIN hw.scheduled[j].fill :
                hw.scheduled[j].fill[k].by # "memcpy"

\* C21: whenever startOutput returns 0, a frame has been scheduled and
\* scheduled playback started since video output was last enabled.
C21_SuccessMeansRunning ==
    (result.op = "startOutput" /\ result.ret = 0)
        => hw.scheduled # <<>> /\ hw.playing

\* C23: a startOutput that is called with output stopped, right after a
\* setFrameData that returned 0, and returns 0, has scheduled a frame whose
\* buffer was filled from the data of that setFrameData.
C23_LatestDataOutput ==
    [][(/\ result.op = "setFrameData" /\ result.ret = 0
        /\ ~gen.m_outputEnabled
        /\ result'.op = "startOutput" /\ result'.ret = 0)
       => /\ hw'.scheduled # <<>>
          /\ hw'.scheduled[Len(hw'.scheduled)].fill =
                <<frame_fill(gen.m_pixelFormat,
                             gen.m_pendingFrameData[1].data)>>]_vars

\* C22: a held frame was created with the current m_width, m_height and
\* m_pixelFormat, and the row_bytes getFrameBuffer reports with a buffer is
\* the frame's.
C22_FrameMatchesConfiguration ==
    /\ \A i \in DOMAIN gen.m_frame :
            /\ gen.m_frame[i].width = gen.m_width
            /\ gen.m_frame[i].height = gen.m_height
            /\ gen.m_frame[i].pixelFormat = gen.m_pixelFormat
    /\ (result.op = "getFrameBuffer" /\ result.ret = 1)
            => result.row_bytes = gen.m_frame[1].rowBytes

\* C24: no write access to a frame's buffer is open when commitFrame
\* returns 0, nor on a frame that is handed to ScheduleVideoFrame.
C24_AccessClosed ==
    /\ (result.op = "commitFrame" /\ result.ret = 0)
            => \A i \in DOMAIN gen.m_frame : gen.m_frame[i].access = 0
    /\ \A j \in DOMAIN hw.scheduled : hw.scheduled[j].access = 0

\* C25: closeDevice leaves output disabled, m_frame, m_output and m_device
\* null and the format cache empty and not cached; it calls Release once on
\* each object that was held and on no other; a closeDevice that follows a
\* closeDevice releases nothing and changes nothing.
C25_CloseReleasesOnce ==
    [][result'.op = "closeDevice"
       => /\ ~gen'.m_outputEnabled /\ ~hw'.enabled /\ ~hw'.playing
          /\ gen'.m_frame = <<>> /\ ~gen'.m_output /\ ~gen'.m_device
          /\ gen'.m_supportedFormats = <<>> /\ ~gen'.m_formatsCached
          /\ result'.released =
                [frame |-> IF gen.m_frame # <<>> THEN 1 ELSE 0,
                 output |-> IF gen.m_output THEN 1 ELSE 0,
                 device |-> IF gen.m_device THEN 1 ELSE 0]
          /\ result.op = "closeDevice"
                => /\ result'.released =
                        [frame |-> 0, output |-> 0, device |-> 0]
                   /\ gen' = gen /\ hw' = hw]_vars

\* closeDevice has released a frame, an output and a device of a generator
\* whose output was running.
C25_Witness ==
    /\ result.op = "closeDevice"
    /\ result.released = [frame |-> 1, output |-> 1, device |-> 1]
    /\ ~gen.m_output /\ ~gen.m_outputEnabled /\ gen.m_frame = <<>>
    /\ gen.m_pendingFrameData # <<>>

\* C26: in every reachable state m_outputEnabled implies that m_output is
\* non-null, so the calls stopOutput makes through m_output (from closeDevice
\* too) have an interface to go through.
C26_EnabledImpliesOutput ==
    gen.m_outputEnabled => gen.m_output

\* Output enabled by getFrameBuffer, with nothing scheduled.
C26_Witness ==
    /\ gen.m_outputEnabled /\ gen.m_output
    /\ result.op = "getFrameBuffer" /\ result.ret = 1
    /\ hw.enabled /\ ~hw.playing

\* C27: with n formats in the list after the caching setPixelFormat does,
\* setPixelFormat(i) returns 0 for 0 <= i < n and a getPixelFormat that
\* follows returns i; for any other i it returns -1 and leaves m_pixelFormat
\* unchanged; and the list never holds a format twice.
C27_IndexRoundTrip ==
    [][/\ result'.op = "setPixelFormat"
            => LET n == Len(gen'.m_supportedFormats)
                   i == result'.index
               IN  IF 0 <= i /\ i < n
                   THEN result'.ret = 0
                   ELSE /\ result'.ret = -1
                        /\ gen'.m_pixelFormat = gen.m_pixelFormat
       /\ (/\ result.op = "setPixelFormat" /\ result.ret = 0
           /\ result'.op = "getPixelFormat")
            => result'.ret = result.index
       /\ \A i, j \in DOMAIN gen'.m_supportedFormats :
            gen'.m_supportedFormats[i] = gen'.m_supportedFormats[j] => i = j
      ]_vars

\* getPixelFormat has answered 1 for the second of eight listed formats,
\* which only setPixelFormat(1) selects.
C27_Witness ==
    /\ result.op = "getPixelFormat" /\ result.ret = 1
    /\ Len(gen.m_supportedFormats) = 8
    /\ gen.m_pixelFormat = gen.m_supportedFormats[2]
    /\ gen.m_pixelFormat = "bmdFormat8BitYUV"

\* C29: the list getSupportedPixelFormats returns, and the list cached for
\* setPixelFormat, is the probe order of cacheSupportedFormats restricted to
\* the formats the device supports.
C29_PreferenceOrder ==
    LET preferred == SelectSeq(ProbeOrder, LAMBDA f : f \in hw.supports)
    IN  /\ (result.op = "getSupportedPixelFormats" /\ gen.m_output)
                => result.list = preferred
        /\ gen.m_formatsCached => gen.m_supportedFormats = preferred

PrescaleOffsets == <<0, 1, 129>>

InitPrescale ==
    /\ width = 1 /\ height = 1
    /\ \E v \in 0..255 :
            srcData = Evaluated([k \in 0..2 |->
                                    (v + PrescaleOffsets[k + 1]) % 256])
    /\ littleEndian = TRUE
    /\ NotCalled
    /\ gen = <<>> /\ hw = <<>>
    /\ result = [op |-> "none"]

ConvertPending ==
    /\ result.op = "none"
    /\ \E fmt \in {"bmdFormat8BitBGRA", "bmdFormat10BitRGB",
                   "bmdFormat12BitRGB"} :
            result' = [op |-> "startOutput", pixelFormat |-> fmt,
                       channels |-> packer_channels(fmt, srcData,
                                                    width * height)]
    /\ UNCHANGED <<gen, hw, codecVars>>

SpecPrescale == InitPrescale /\ [][ConvertPending]_vars

\* The samples handed to the packer, in the order of the pending bytes.
Passed(k) ==
    (CASE k = 0 -> result.channels.r
       [] k = 1 -> result.channels.g
       [] k = 2 -> result.channels.b)[0]

\* C30: the value startOutput passes to the 10-bit RGB packer for an 8-bit
\* sample v is (v * 1023) / 255 and to the 12-bit packer (v * 4095) / 255;
\* it is 0 for 0 and full scale for 255, never above full scale, and no
\* smaller for a larger sample.
C30_Prescale ==
    (/\ result.op = "startOutput"
     /\ result.pixelFormat \in {"bmdFormat10BitRGB", "bmdFormat12BitRGB"})
    => LET full == IF result.pixelFormat = "bmdFormat10BitRGB" THEN 1023
                   ELSE 4095
       IN  /\ \A k \in 0..2 :
                /\ Passed(k) = (srcData[k] * full) \div 255
                /\ Passed(k) <= full
                /\ srcData[k] = 0 => Passed(k) = 0
                /\ srcData[k] = 255 => Passed(k) = full
           /\ \A k, l \in 0..2 :
                srcData[k] <= srcData[l] => Passed(k) <= Passed(l)

\* The 12-bit arm has converted 255 to 4095, 0 to 0 and 128 to 2055.
C30_Witness ==
    /\ result.op = "startOutput"
    /\ result.pixelFormat = "bmdFormat12BitRGB"
    /\ srcData[0] = 255 /\ Passed(0) = 4095
    /\ srcData[1] = 0 /\ Passed(1) = 0
    /\ srcData[2] = 128 /\ Passed(2) = 2055

====
